---- MODULE Spec2Model ----
(***************************************************************************)
(* A model of the wildfire radar-chart pages: the ChartRenderer module     *)
(* (label wrapping, number formatting, tooltip composition, render), the   *)
(* index page that adds and removes chart cards, and the incident page     *)
(* that shows one chart per zone.                                          *)
(*                                                                         *)
(* JavaScript values are tagged records [t |-> <typeof-like tag>, v |-> _].*)
(* Numbers are fixed-point: Num(h) is the number h / 100, so 62.25 is      *)
(* Num(6225).  Every number used is either an exact multiple of 1/4 or is  *)
(* not within a rounding tie at one decimal, so the binary representation  *)
(* of the double never decides a rounding.  Strings are TLA+ strings; the  *)
(* runtime locale of toLocaleString is taken to be en-US, the locale of    *)
(* the documented examples ("26,400").  The bullet U+2022 of the tooltip   *)
(* templates is written "*" and the ellipsis of the button text "...".     *)
(***************************************************************************)
EXTENDS Integers, Sequences, FiniteSets

VARIABLES
    input, output,              \* a helper's argument and what it returned
    payload, chart, callback,   \* a chart payload, the chart rendered from it,
                                \* and the last callback Chart.js invoked on it
    regionSelect, incidentSelect, zoneSelect, addBtn,   \* the index page's controls
    emptyState,                 \* whether the empty-state element is still there
    chartsGrid,                 \* the cards of the grid, in document order
    activeCharts,               \* the Map chartId -> Chart instance
    charts,                     \* every Chart instance created, and its canvas
    pending,                    \* the Add Chart handlers awaiting their fetch
    nextUid,                    \* the number of the next handler to start
    locationHash,               \* the incident page's location.hash
    pagePc,                     \* where the incident page's script stands
    lastUpdated,                \* its last-updated fetch and the #last-updated text
    results,                    \* what each zone's fetch settled to, in zones order
    quadrantGrid,               \* the cells of #quadrant-grid, in document order
    documentTitle               \* document.title

vars == <<input, output, payload, chart, callback,
          regionSelect, incidentSelect, zoneSelect, addBtn, emptyState,
          chartsGrid, activeCharts, charts, pending, nextUid,
          locationHash, pagePc, lastUpdated, results, quadrantGrid, documentTitle>>

pureVars   == <<input, output>>
renderVars == <<payload, chart, callback>>
indexVars  == <<regionSelect, incidentSelect, zoneSelect, addBtn, emptyState,
                chartsGrid, activeCharts, charts, pending, nextUid>>
incidentVars == <<locationHash, pagePc, lastUpdated, results, quadrantGrid,
                  documentTitle>>

(***************************************************************************)
(* JavaScript values                                                       *)
(***************************************************************************)
Null      == [t |-> "null"]
Undefined == [t |-> "undefined"]
Num(h)    == [t |-> "number", v |-> h]
Str(s)    == [t |-> "string", v |-> s]
Bool(b)   == [t |-> "boolean", v |-> b]
\* A plain object: its own properties as <<key, value>> pairs in creation order.
Obj(ps)   == [t |-> "object", v |-> ps]
\* An array: its elements in index order.
Arr(es)   == [t |-> "array", v |-> es]
\* The completion of a call that raised instead of returning.
Throw(e)  == [t |-> "throw", v |-> e]

IsNullish(x) == x.t \in {"null", "undefined"}

\* ToBoolean: the falsy values are null, undefined, 0, "" and false.
Truthy(x) ==
    CASE x.t \in {"null", "undefined"} -> FALSE
      [] x.t = "number"  -> x.v # 0
      [] x.t = "string"  -> x.v # ""
      [] x.t = "boolean" -> x.v
      [] OTHER           -> TRUE

Digit(d) == SubSeq("0123456789", d + 1, d + 1)

RECURSIVE IntStr(_)
IntStr(n) == IF n < 10 THEN Digit(n) ELSE IntStr(n \div 10) \o Digit(n % 10)

Abs(n) == IF n < 0 THEN -n ELSE n

\* Number::toString of h/100: the shortest decimal form.
NumJsString(h) ==
    LET a    == Abs(h)
        frac == a % 100
        body == IntStr(a \div 100) \o
                (IF frac = 0 THEN ""
                 ELSE IF frac % 10 = 0 THEN "." \o Digit(frac \div 10)
                 ELSE "." \o Digit(frac \div 10) \o Digit(frac % 10))
    IN  (IF h < 0 THEN "-" ELSE "") \o body

RECURSIVE JoinStr(_, _)
JoinStr(parts, sep) ==
    IF Len(parts) = 0 THEN ""
    ELSE IF Len(parts) = 1 THEN parts[1]
    ELSE parts[1] \o sep \o JoinStr(Tail(parts), sep)

\* String(value) / template-literal conversion.
RECURSIVE JsString(_)
JsString(x) ==
    CASE x.t = "null"      -> "null"
      [] x.t = "undefined" -> "undefined"
      [] x.t = "number"    -> NumJsString(x.v)
      [] x.t = "string"    -> x.v
      [] x.t = "boolean"   -> IF x.v THEN "true" ELSE "false"
      [] x.t = "object"    -> "[object Object]"
      [] x.t = "array"     ->
            JoinStr([i \in 1..Len(x.v) |->
                        IF IsNullish(x.v[i]) THEN "" ELSE JsString(x.v[i])], ",")

\* A canonical array index: "0", or digits with no leading zero, below 2^32 - 1.
\* Every such string of up to nine digits is one; keys of ten digits or more do
\* not occur here.
IsDigitChar(c) == c \in {"0", "1", "2", "3", "4", "5", "6", "7", "8", "9"}

DigitVal(c) ==
    CASE c = "0" -> 0 [] c = "1" -> 1 [] c = "2" -> 2 [] c = "3" -> 3
      [] c = "4" -> 4 [] c = "5" -> 5 [] c = "6" -> 6 [] c = "7" -> 7
      [] c = "8" -> 8 [] c = "9" -> 9

RECURSIVE DecVal(_)
DecVal(s) ==
    IF Len(s) = 0 THEN 0
    ELSE DecVal(SubSeq(s, 1, Len(s) - 1)) * 10 + DigitVal(SubSeq(s, Len(s), Len(s)))

IsArrayIndex(k) ==
    /\ Len(k) \in 1..9
    /\ \A i \in 1..Len(k) : IsDigitChar(SubSeq(k, i, i))
    /\ (Len(k) = 1 \/ SubSeq(k, 1, 1) # "0")

\* Insert key k into the ascending (by numeric value) sequence s.
RECURSIVE InsertIndex(_, _)
InsertIndex(s, k) ==
    IF Len(s) = 0 THEN <<k>>
    ELSE IF DecVal(k) < DecVal(s[1]) THEN <<k>> \o s
    ELSE <<s[1]>> \o InsertIndex(Tail(s), k)

RECURSIVE SortIndices(_)
SortIndices(s) ==
    IF Len(s) = 0 THEN <<>> ELSE InsertIndex(SortIndices(Tail(s)), s[1])

\* OrdinaryOwnPropertyKeys: array-index keys in ascending numeric order, then
\* the other string keys in creation order.
OwnKeys(x) ==
    CASE x.t = "object" ->
            LET ks == [i \in 1..Len(x.v) |-> x.v[i][1]]
                NotIndex(k) == ~IsArrayIndex(k)
            IN  SortIndices(SelectSeq(ks, IsArrayIndex)) \o SelectSeq(ks, NotIndex)
      [] x.t = "array"  -> [i \in 1..Len(x.v) |-> IntStr(i - 1)]
      [] x.t = "string" -> [i \in 1..Len(x.v) |-> IntStr(i - 1)]
      [] OTHER          -> <<>>

\* key in x, for an object or array x (own properties; the labels and keys used
\* here are never names of Object.prototype or Array.prototype).
HasProp(x, k) ==
    CASE x.t = "object" -> \E i \in 1..Len(x.v) : x.v[i][1] = k
      [] x.t = "array"  -> IsArrayIndex(k) /\ DecVal(k) < Len(x.v)
      [] OTHER          -> FALSE

\* x[k] / x.k for a non-nullish x: undefined when x has no such property.
GetProp(x, k) ==
    CASE x.t = "object" ->
            IF \E i \in 1..Len(x.v) : x.v[i][1] = k
            THEN x.v[CHOOSE i \in 1..Len(x.v) : x.v[i][1] = k][2]
            ELSE Undefined
      [] x.t = "array"  ->
            IF IsArrayIndex(k) /\ DecVal(k) < Len(x.v) THEN x.v[DecVal(k) + 1]
            ELSE IF k = "length" THEN Num(Len(x.v) * 100)
            ELSE Undefined
      [] x.t = "string" ->
            IF IsArrayIndex(k) /\ DecVal(k) < Len(x.v)
            THEN Str(SubSeq(x.v, DecVal(k) + 1, DecVal(k) + 1))
            ELSE IF k = "length" THEN Num(Len(x.v) * 100)
            ELSE Undefined
      [] OTHER          -> Undefined

ObjectKeys(x)   == OwnKeys(x)
ObjectValues(x) == LET ks == OwnKeys(x) IN [i \in 1..Len(ks) |-> GetProp(x, ks[i])]

(***************************************************************************)
(* Label Formatter: formatNumber, formatRawEntry                           *)
(***************************************************************************)
Pad3(n) == Digit(n \div 100) \o Digit((n \div 10) % 10) \o Digit(n % 10)

\* en-US grouping of a non-negative integer: a comma before every group of
\* three digits.
RECURSIVE Grouped(_)
Grouped(n) ==
    IF n < 1000 THEN IntStr(n) ELSE Grouped(n \div 1000) \o "," \o Pad3(n % 1000)

\* Number.prototype.toLocaleString of h/100 with maximumFractionDigits maxFrac
\* and no required fraction digit.  With two or more digits allowed h/100 is
\* exact; with one, Intl rounds half away from zero (roundingMode halfExpand).
\* The sign is that of the unrounded value.
ToLocaleString(h, maxFrac) ==
    LET a      == Abs(h)
        tenths == (a + 5) \div 10
        sign   == IF h < 0 THEN "-" ELSE ""
    IN  IF maxFrac >= 2
        THEN sign \o Grouped(a \div 100) \o
             (IF a % 100 = 0 THEN ""
              ELSE IF a % 10 = 0 THEN "." \o Digit((a \div 10) % 10)
              ELSE "." \o Digit((a \div 10) % 10) \o Digit(a % 10))
        ELSE sign \o Grouped(tenths \div 10) \o
             (IF tenths % 10 = 0 THEN "" ELSE "." \o Digit(tenths % 10))

\* Number.isInteger
IsInteger(x) == x.t = "number" /\ x.v % 100 = 0

FormatNumberTrunc(value) ==
    IF IsNullish(value) THEN "N/A"
    ELSE IF value.t # "number" THEN JsString(value)
    ELSE (IF value.v < 0 THEN "-" ELSE "") \o Grouped(Abs(value.v) \div 100) \o
         (IF (Abs(value.v) \div 10) % 10 = 0 THEN ""
          ELSE "." \o Digit((Abs(value.v) \div 10) % 10))

formatNumber(value) ==
    IF IsNullish(value) THEN "N/A"
    ELSE IF value.t # "number" THEN JsString(value)
    ELSE IF IsInteger(value) THEN ToLocaleString(value.v, 3)
    ELSE ToLocaleString(value.v, 1)

\* formatRawEntry returns a string or null; the result is a JavaScript value.
FormatRawEntryAlwaysMetric(entry) ==
    IF ~Truthy(entry) \/ IsNullish(GetProp(entry, "value")) THEN Null
    ELSE Str(formatNumber(GetProp(entry, "value")) \o " " \o
             JsString(GetProp(entry, "metric")))

formatRawEntry(entry) ==
    IF ~Truthy(entry) \/ IsNullish(GetProp(entry, "value")) THEN Null
    ELSE LET formatted == formatNumber(GetProp(entry, "value"))
             metric    == GetProp(entry, "metric")
         IN  IF Truthy(metric) THEN Str(formatted \o " " \o JsString(metric))
             ELSE Str(formatted)

(***************************************************************************)
(* The formatting helpers applied to inputs of every shape.                *)
(***************************************************************************)
NotCalled == [fn |-> "none", val |-> Undefined]

\* Numbers (in hundredths) a payload may carry: integers below and above the
\* grouping threshold, non-integers that round up, round down, sit on an exact
\* tie (x.25, x.75) or round to an integer, and negative values.
NumberValues ==
    {0, 100, 1200, 99900, 100000, 2640000, 123456700, 100000000,
     314, 396, 25, 75, 6225, 6230, 99996, 123456, 314159, 99999999,
     -100, -2640000, -123456, -396, -4}

EntryValues ==
    {Undefined, Null, Str(""), Str("high"), Bool(TRUE), Bool(FALSE),
     Obj(<<>>), Arr(<<Num(100), Null, Num(250)>>)}
        \cup {Num(h) : h \in NumberValues}

EntryMetrics ==
    {Undefined, Null, Str(""), Str("acres burned"), Str("bridges"),
     Num(0), Num(500), Bool(TRUE), Bool(FALSE)}

\* {value, metric} objects; an undefined field is a field that is missing.
MakeEntry(value, metric) ==
    Obj((IF value = Undefined THEN <<>> ELSE << <<"value", value>> >>) \o
        (IF metric = Undefined THEN <<>> ELSE << <<"metric", metric>> >>))

FormatDomainValues == {v \in EntryValues : v.t # "number" \/ v.v \in {0, 2640000, 314, -396}}

FormatInputs ==
    EntryValues \cup {MakeEntry(v, m) : v \in FormatDomainValues, m \in EntryMetrics}

InitPure(inputs) ==
    /\ input \in inputs
    /\ output = NotCalled

CallFormatNumber ==
    /\ output = NotCalled
    /\ output' = [fn |-> "formatNumber", val |-> Str(formatNumber(input))]
    /\ UNCHANGED input

CallFormatRawEntry ==
    /\ output = NotCalled
    /\ output' = [fn |-> "formatRawEntry", val |-> formatRawEntry(input)]
    /\ UNCHANGED input

\* The variables of the parts of the program a specification leaves out.
NoChart    == [rendered |-> FALSE]
NoCallback == [fn |-> "none", index |-> 0, val |-> Undefined]

IdlePure   == input = Undefined /\ output = NotCalled
IdleRender == payload = Undefined /\ chart = NoChart /\ callback = NoCallback
IdleIndex  ==
    /\ regionSelect = "" /\ incidentSelect = ""
    /\ zoneSelect = [value |-> "", disabled |-> TRUE]
    /\ addBtn = [disabled |-> TRUE, textContent |-> "Add Chart"]
    /\ emptyState = TRUE
    /\ chartsGrid = <<>> /\ activeCharts = {} /\ charts = {}
    /\ pending = {} /\ nextUid = 1
IdleIncident ==
    /\ locationHash = "" /\ pagePc = "idle"
    /\ lastUpdated = [settled |-> FALSE, textContent |-> ""]
    /\ results = <<>> /\ quadrantGrid = <<>> /\ documentTitle = ""

InitFormat == InitPure(FormatInputs) /\ IdleRender /\ IdleIndex /\ IdleIncident
NextFormat ==
    \/ CallFormatNumber    /\ UNCHANGED <<renderVars, indexVars, incidentVars>>
    \/ CallFormatRawEntry  /\ UNCHANGED <<renderVars, indexVars, incidentVars>>
SpecFormat == InitFormat /\ [][NextFormat]_vars

(***************************************************************************)
(* Reading a formatted number back                                         *)
(***************************************************************************)
RECURSIVE StripChar(_, _)
StripChar(s, c) ==
    IF Len(s) = 0 THEN ""
    ELSE (IF SubSeq(s, 1, 1) = c THEN "" ELSE SubSeq(s, 1, 1))
         \o StripChar(SubSeq(s, 2, Len(s)), c)

HasChar(s, c) == \E i \in 1..Len(s) : SubSeq(s, i, i) = c
IndexOfChar(s, c) == CHOOSE i \in 1..Len(s) :
                        SubSeq(s, i, i) = c /\ \A j \in 1..(i - 1) : SubSeq(s, j, j) # c

\* s is a non-negative integer in en-US grouped form: digits, no leading zero,
\* and a comma exactly before every group of three digits.
IsGroupedInteger(s) ==
    /\ Len(s) >= 1
    /\ \A i \in 1..Len(s) :
          IF (Len(s) - i) % 4 = 3 THEN SubSeq(s, i, i) = ","
          ELSE IsDigitChar(SubSeq(s, i, i))
    /\ SubSeq(s, 1, 1) # ","
    /\ (Len(s) = 1 \/ SubSeq(s, 1, 1) # "0")

Unsigned(s) == IF Len(s) > 0 /\ SubSeq(s, 1, 1) = "-" THEN SubSeq(s, 2, Len(s)) ELSE s
IntPart(s)  == IF HasChar(s, ".") THEN SubSeq(s, 1, IndexOfChar(s, ".") - 1) ELSE s
FracPart(s) == IF HasChar(s, ".") THEN SubSeq(s, IndexOfChar(s, ".") + 1, Len(s)) ELSE ""

\* The magnitude, in tenths, that a formatted number with at most one fraction
\* digit denotes.
TenthsOf(s) ==
    DecVal(StripChar(IntPart(Unsigned(s)), ",")) * 10
        + (IF FracPart(Unsigned(s)) = "" THEN 0 ELSE DecVal(FracPart(Unsigned(s))))

\* C9: formatRawEntry returns null when the entry, or its value, is null or
\* undefined; otherwise formatNumber(entry.value), followed by a space and the
\* metric exactly when the metric is truthy (a missing, null or empty metric
\* gives the bare formatted number).
C9_FormatEntry ==
    output.fn = "formatRawEntry" =>
        LET value  == IF input.t \in {"object", "array", "string"}
                      THEN GetProp(input, "value") ELSE Undefined
            metric == GetProp(input, "metric")
            bare   == metric \in {Undefined, Null, Str(""), Num(0), Bool(FALSE)}
        IN  IF input \in {Null, Undefined} \/ value \in {Null, Undefined}
            THEN output.val = Null
            ELSE /\ output.val.t = "string"
                 /\ bare  => output.val.v = formatNumber(value)
                 /\ ~bare => output.val.v = formatNumber(value) \o " " \o JsString(metric)

C9_Witness ==
    /\ output.fn = "formatRawEntry"
    /\ input = MakeEntry(Num(2640000), Str("acres burned"))
    /\ output.val = Str("26,400 acres burned")

\* C10: formatNumber gives "N/A" for null or missing, the verbatim string form
\* of a non-numeric value, the grouped form without fraction digits of an
\* integer-valued number, and for a non-integer number the grouped form of the
\* value rounded (not truncated) to one fraction digit.
C10_FormatNumber ==
    output.fn = "formatNumber" =>
        LET out == output.val.v
            u   == Unsigned(out)
        IN  CASE input \in {Null, Undefined} -> out = "N/A"
              [] input.t = "string"  -> out = input.v
              [] input.t = "boolean" -> out = (IF input.v THEN "true" ELSE "false")
              [] input.t = "number" /\ input.v % 100 = 0 ->
                    /\ IsGroupedInteger(u)
                    /\ DecVal(StripChar(u, ",")) * 100 = Abs(input.v)
                    /\ (out # u) <=> (input.v < 0)
              [] input.t = "number" /\ input.v % 100 # 0 ->
                    /\ IsGroupedInteger(IntPart(u))
                    /\ Len(FracPart(u)) <= 1
                    /\ \A i \in 1..Len(FracPart(u)) : IsDigitChar(SubSeq(FracPart(u), i, i))
                    /\ TenthsOf(out) * 10 - Abs(input.v) \in -4..5
                    /\ (out # u) <=> (input.v < 0)
              [] input.t = "object"  -> out = "[object Object]"
              [] OTHER -> input.t = "array"

C10_Witness ==
    /\ output.fn = "formatNumber"
    /\ input = Num(99996)
    /\ output.val = Str("1,000")

(***************************************************************************)
(* extractDatetime                                                         *)
(***************************************************************************)
\* Array.prototype.find with the test typeof v === 'string': the first such
\* element, or undefined.
FindString(vals) ==
    IF \E i \in 1..Len(vals) : vals[i].t = "string"
    THEN vals[CHOOSE i \in 1..Len(vals) :
                 vals[i].t = "string" /\ \A j \in 1..(i - 1) : vals[j].t # "string"]
    ELSE Undefined

ExtractDatetimeSingleKey(p) ==
    IF p.t = "string" THEN p
    ELSE IF p.t \notin {"object", "array", "null"} \/ p = Null THEN Null
    ELSE IF Len(ObjectValues(p)) = 1 /\ ObjectValues(p)[1].t = "string"
         THEN ObjectValues(p)[1] ELSE Null

\* typeof is 'object' for objects, arrays and null.
extractDatetime(p) ==
    IF p.t = "string" THEN p
    ELSE IF p.t \notin {"object", "array", "null"} \/ p = Null THEN Null
    ELSE LET found == FindString(ObjectValues(p))
         IN  IF IsNullish(found) THEN Null ELSE found

MaxKeys == 2

DatetimeKeys   == {"updated_at", "a", "2", "10"}
DatetimeValues == {Str("2024-01-01"), Str(""), Num(100), Null, Bool(TRUE)}

\* The injective sequences of length n over S.
DistinctSeqs(S, n) ==
    {q \in [1..n -> S] : \A i, j \in 1..n : i # j => q[i] # q[j]}

\* The parsed last_updated.json, or null when the file is absent: a bare string,
\* another primitive, an object of up to MaxKeys keys, or an array.
DatetimePayloads ==
    {Null, Undefined, Str("2024-01-01T00:00Z"), Str(""), Num(100), Bool(TRUE)}
      \cup UNION {{Obj([i \in 1..n |-> <<ks[i], vs[i]>>]) :
                     ks \in DistinctSeqs(DatetimeKeys, n), vs \in [1..n -> DatetimeValues]} :
                  n \in 0..MaxKeys}
      \cup UNION {{Arr(vs) : vs \in [1..n -> DatetimeValues]} : n \in 0..MaxKeys}

CallExtractDatetime ==
    /\ output = NotCalled
    /\ output' = [fn |-> "extractDatetime", val |-> extractDatetime(input)]
    /\ UNCHANGED input

InitDatetime == InitPure(DatetimePayloads) /\ IdleRender /\ IdleIndex /\ IdleIncident
NextDatetime == CallExtractDatetime /\ UNCHANGED <<renderVars, indexVars, incidentVars>>
SpecDatetime == InitDatetime /\ [][NextDatetime]_vars

MAX_LABEL_CHARS == 14

\* String.prototype.split(' '): the pieces between single spaces, empty pieces
\* included.
RECURSIVE SplitSpaces(_)
SplitSpaces(s) ==
    IF ~HasChar(s, " ") THEN <<s>>
    ELSE <<SubSeq(s, 1, IndexOfChar(s, " ") - 1)>>
         \o SplitSpaces(SubSeq(s, IndexOfChar(s, " ") + 1, Len(s)))

\* The for loop over words[i..], with the current line and the lines pushed so
\* far, and the push of the last line after it.  An empty line is falsy.
RECURSIVE WrapLoop(_, _, _, _)
WrapLoop(words, i, line, lines) ==
    IF i > Len(words)
    THEN IF line # "" THEN Append(lines, line) ELSE lines
    ELSE LET word      == words[i]
             candidate == IF line # "" THEN line \o " " \o word ELSE word
         IN  IF Len(candidate) > MAX_LABEL_CHARS /\ line # ""
             THEN WrapLoop(words, i + 1, word, Append(lines, line))
             ELSE WrapLoop(words, i + 1, candidate, lines)

RECURSIVE WrapLoopHardBreak(_, _, _, _)
WrapLoopHardBreak(words, i, line, lines) ==
    IF i > Len(words)
    THEN IF line # "" THEN Append(lines, line) ELSE lines
    ELSE LET word      == words[i]
             candidate == IF line # "" THEN line \o " " \o word ELSE word
         IN  IF Len(candidate) > MAX_LABEL_CHARS
             THEN WrapLoopHardBreak(words, i + 1,
                      SubSeq(candidate, MAX_LABEL_CHARS + 1, Len(candidate)),
                      Append(lines, SubSeq(candidate, 1, MAX_LABEL_CHARS)))
             ELSE WrapLoopHardBreak(words, i + 1, candidate, lines)

WrapPointLabelHardBreak(text) ==
    IF Len(text) <= MAX_LABEL_CHARS THEN Str(text)
    ELSE Arr([i \in 1..Len(WrapLoopHardBreak(SplitSpaces(text), 1, "", <<>>)) |->
                Str(WrapLoopHardBreak(SplitSpaces(text), 1, "", <<>>)[i])])

\* The result is the text itself or an array of lines.
wrapPointLabel(text) ==
    IF Len(text) <= MAX_LABEL_CHARS THEN Str(text)
    ELSE LET lines == WrapLoop(SplitSpaces(text), 1, "", <<>>)
         IN  Arr([i \in 1..Len(lines) |-> Str(lines[i])])

MaxWords == 3

\* Words of 0 to 15 characters; an empty word between two separators is a
\* leading, trailing or repeated space.
LabelWords == {"", "a", "of", "Fuel", "Critical", "Infrastructure", "Infrastructures"}

LabelTexts ==
    UNION {{JoinStr(ws, " ") : ws \in [1..n -> LabelWords]} : n \in 1..MaxWords}

CallWrapPointLabel ==
    /\ output = NotCalled
    /\ input.t = "string"
    /\ output' = [fn |-> "wrapPointLabel", val |-> wrapPointLabel(input.v)]
    /\ UNCHANGED input

InitWrap == InitPure({Str(s) : s \in LabelTexts}) /\ IdleRender /\ IdleIndex /\ IdleIncident
NextWrap == CallWrapPointLabel /\ UNCHANGED <<renderVars, indexVars, incidentVars>>
SpecWrap == InitWrap /\ [][NextWrap]_vars

\* The maximal runs of non-space characters of s, in order.
RECURSIVE WordsOf(_)
WordsOf(s) ==
    IF Len(s) = 0 THEN <<>>
    ELSE IF SubSeq(s, 1, 1) = " " THEN WordsOf(SubSeq(s, 2, Len(s)))
    ELSE LET n == IF HasChar(s, " ") THEN IndexOfChar(s, " ") - 1 ELSE Len(s)
         IN  <<SubSeq(s, 1, n)>> \o WordsOf(SubSeq(s, n + 1, Len(s)))

RECURSIVE WordsOfLines(_)
WordsOfLines(lines) ==
    IF Len(lines) = 0 THEN <<>> ELSE WordsOf(lines[1].v) \o WordsOfLines(Tail(lines))

\* C7: wrapPointLabel returns a text of at most 14 characters unchanged;
\* otherwise a sequence of lines, each of at most 14 characters or a single
\* word, whose words are the words of the text, whole and in their order.
C7_WrapLabel ==
    output.fn = "wrapPointLabel" =>
        IF Len(input.v) <= 14 THEN output.val = input
        ELSE /\ output.val.t = "array"
             /\ \A i \in 1..Len(output.val.v) :
                   /\ output.val.v[i].t = "string"
                   /\ Len(output.val.v[i].v) <= 14 \/ ~HasChar(output.val.v[i].v, " ")
             /\ WordsOfLines(output.val.v) = WordsOf(input.v)

C7_Witness ==
    /\ output.fn = "wrapPointLabel"
    /\ input = Str(" Infrastructures Fuel")
    /\ output.val = Arr(<<Str("Infrastructures"), Str("Fuel")>>)

(***************************************************************************)
(* buildTooltipLabel and render                                            *)
(***************************************************************************)
COLOR_DATA_POINT == "rgba(59, 130, 246, 1)"
COLOR_LABEL      == "#cbd5e1"
COLOR_LABEL_NULL == "#3d4a5c"

\* Number.prototype.toFixed(1) of h/100: rounds half away from zero, always one
\* fraction digit, no grouping.
ToFixed1(h) ==
    LET tenths == (Abs(h) + 5) \div 10
    IN  (IF h < 0 THEN "-" ELSE "") \o IntStr(tenths \div 10) \o "." \o Digit(tenths % 10)

\* rawEntry.map(formatRawEntry).filter(Boolean): the truthy results, in order.
FormattedParts(entries) ==
    LET formatted == [i \in 1..Len(entries) |-> formatRawEntry(entries[i])]
    IN  SelectSeq(formatted, Truthy)

BuildTooltipLabelScoreFirst(label, scoreValue, isNull, rawData) ==
    IF isNull THEN Str("No data available")
    ELSE IF scoreValue.t # "number" THEN Throw("TypeError")
    ELSE LET scoreLine == Str("* Score: " \o ToFixed1(scoreValue.v) \o " / 100")
         IN  IF ~Truthy(rawData) THEN scoreLine
             ELSE IF rawData.t \notin {"object", "array"} THEN Throw("TypeError")
             ELSE IF ~HasProp(rawData, label) THEN scoreLine
             ELSE LET rawEntry == GetProp(rawData, label)
                  IN  IF IsNullish(rawEntry) THEN scoreLine
                      ELSE IF rawEntry.t = "array"
                      THEN LET parts == [i \in 1..Len(rawEntry.v) |-> formatRawEntry(rawEntry.v[i])]
                           IN  IF Len(parts) > 0
                               THEN Arr(<<scoreLine,
                                          Str("* " \o JoinStr([i \in 1..Len(parts) |-> JsString(parts[i])], " | "))>>)
                               ELSE scoreLine
                      ELSE LET formatted == formatRawEntry(rawEntry)
                           IN  IF Truthy(formatted)
                               THEN Arr(<<scoreLine, Str("* " \o formatted.v)>>)
                               ELSE scoreLine

\* scoreValue.toFixed is not a function unless scoreValue is a number, and the
\* in operator raises on a right operand that is not an object: both are a
\* TypeError raised out of the function.
buildTooltipLabel(label, scoreValue, isNull, rawData) ==
    IF isNull THEN Str("No data available")
    ELSE IF scoreValue.t # "number" THEN Throw("TypeError")
    ELSE LET scoreLine == Str("* Score: " \o ToFixed1(scoreValue.v) \o " / 100")
         IN  IF ~Truthy(rawData) THEN scoreLine
             ELSE IF rawData.t \notin {"object", "array"} THEN Throw("TypeError")
             ELSE IF ~HasProp(rawData, label) THEN scoreLine
             ELSE LET rawEntry == GetProp(rawData, label)
                  IN  IF IsNullish(rawEntry) THEN scoreLine
                      ELSE IF rawEntry.t = "array"
                      THEN LET parts == FormattedParts(rawEntry.v)
                           IN  IF Len(parts) > 0
                               THEN Arr(<<Str("* " \o JoinStr([i \in 1..Len(parts) |-> parts[i].v], " | ")),
                                          scoreLine>>)
                               ELSE scoreLine
                      ELSE LET formatted == formatRawEntry(rawEntry)
                           IN  IF Truthy(formatted)
                               THEN Arr(<<Str("* " \o formatted.v), scoreLine>>)
                               ELSE scoreLine

\* The per-axis maps of render: v => v === null and the point styling.
NullFlagFalsy(v) == ~Truthy(v)
nullFlagOf(v) == v = Null

displayValueOf(v) == IF v = Null THEN Num(0) ELSE v
pointColorOf(n) == IF n THEN "transparent" ELSE COLOR_DATA_POINT
pointRadiusOf(n) == IF n THEN 0 ELSE 4
pointHoverRadiusOf(n) == IF n THEN 0 ELSE 6

PointHitRadiusAlways(n) == 8
pointHitRadiusOf(n) == IF n THEN 0 ELSE 8

\* The chart render builds: the configuration handed to the Chart constructor
\* (labels and the one dataset) and the values its callbacks close over.
render(chartData) ==
    LET data        == GetProp(chartData, "data")
        labels      == ObjectKeys(data)
        scoreValues == ObjectValues(data)
        raw         == GetProp(chartData, "raw")
        nullFlags   == [i \in 1..Len(scoreValues) |-> nullFlagOf(scoreValues[i])]
    IN  [rendered             |-> TRUE,
         labels               |-> labels,
         scoreValues          |-> scoreValues,
         rawData              |-> IF Truthy(raw) THEN raw ELSE Null,
         nullFlags            |-> nullFlags,
         data                 |-> [i \in 1..Len(scoreValues) |-> displayValueOf(scoreValues[i])],
         pointBackgroundColor |-> [i \in 1..Len(nullFlags) |-> pointColorOf(nullFlags[i])],
         pointBorderColor     |-> [i \in 1..Len(nullFlags) |-> pointColorOf(nullFlags[i])],
         pointRadius          |-> [i \in 1..Len(nullFlags) |-> pointRadiusOf(nullFlags[i])],
         pointHoverRadius     |-> [i \in 1..Len(nullFlags) |-> pointHoverRadiusOf(nullFlags[i])],
         pointHitRadius       |-> [i \in 1..Len(nullFlags) |-> pointHitRadiusOf(nullFlags[i])]]

MaxAxes == 2

AxisLabels == {"Fuel", "Critical Infrastructure", "2"}
AxisOrder  == <<"Fuel", "Critical Infrastructure", "2">>

\* Scores: null, zero, a number, and values of the wrong type.
AxisScores == {Null, Num(0), Num(6225), Str("high"), Obj(<<>>)}

\* What raw may hold for one axis: nothing (no key), null, a {value, metric}
\* entry, a sequence of entries, or a value of the wrong type.
RawDetails ==
    << Undefined,
       Null,
       MakeEntry(Num(2640000), Str("acres burned")),
       MakeEntry(Null, Str("tunnels")),
       MakeEntry(Num(1200), Undefined),
       Arr(<<MakeEntry(Num(1200), Str("bridges")), MakeEntry(Null, Str("tunnels")),
             MakeEntry(Num(314), Str("miles"))>>),
       Arr(<<MakeEntry(Null, Str("tunnels")), MakeEntry(Undefined, Str("dams"))>>),
       Arr(<<>>),
       Num(500),
       MakeEntry(Str(""), Undefined),
       Arr(<<MakeEntry(Str(""), Null), MakeEntry(Num(1200), Str("bridges"))>>) >>

\* The raw mapping number k: the j-th label of AxisOrder holds detail j + k
\* (cyclically), so that every label meets every detail and the labels of one
\* mapping hold different details.
RawMapping(k) ==
    LET detail(j) == RawDetails[((j + k) % Len(RawDetails)) + 1]
        present   == SelectSeq(AxisOrder,
                         LAMBDA l : \E j \in 1..Len(AxisOrder) :
                                       AxisOrder[j] = l /\ detail(j) # Undefined)
        indexOf(l) == CHOOSE j \in 1..Len(AxisOrder) : AxisOrder[j] = l
    IN  Obj([i \in 1..Len(present) |-> <<present[i], detail(indexOf(present[i]))>>])

\* raw: missing, null, a mapping, or a value that is not a mapping.
RawValues ==
    {Undefined, Null, Str("abc"), Num(700)}
        \cup {RawMapping(k) : k \in 0..(Len(RawDetails) - 1)}

MakePayload(data, raw) ==
    Obj(<< <<"title", Str("Fire: zone")>>, <<"subtitle", Str("sub")>>, <<"data", data>> >>
        \o (IF raw = Undefined THEN <<>> ELSE << <<"raw", raw>> >>))

\* p is a payload that has a data field: an object of 1 to MaxAxes axes.
IsChartPayload(p) ==
    \E n \in 1..MaxAxes :
        \E ks \in DistinctSeqs(AxisLabels, n) :
            \E vs \in [1..n -> AxisScores] :
                \E raw \in RawValues :
                    p = MakePayload(Obj([i \in 1..n |-> <<ks[i], vs[i]>>]), raw)

Render ==
    /\ ~chart.rendered
    /\ chart' = render(payload)
    /\ UNCHANGED <<payload, callback>>

\* The callbacks Chart.js invokes on a rendered chart, for the data index i.
TooltipTitle ==
    /\ chart.rendered
    /\ \E i \in 0..(Len(chart.labels) - 1) :
          callback' = [fn |-> "title", index |-> i, val |-> Str(chart.labels[i + 1])]
    /\ UNCHANGED <<payload, chart>>

TooltipLabel ==
    /\ chart.rendered
    /\ \E i \in 0..(Len(chart.labels) - 1) :
          callback' = [fn |-> "label", index |-> i,
                       val |-> buildTooltipLabel(chart.labels[i + 1], chart.scoreValues[i + 1],
                                                 chart.nullFlags[i + 1], chart.rawData)]
    /\ UNCHANGED <<payload, chart>>

PointLabelColor ==
    /\ chart.rendered
    /\ \E i \in 0..(Len(chart.labels) - 1) :
          callback' = [fn |-> "pointLabelColor", index |-> i,
                       val |-> Str(IF chart.nullFlags[i + 1] THEN COLOR_LABEL_NULL
                                   ELSE COLOR_LABEL)]
    /\ UNCHANGED <<payload, chart>>

PointLabelCallback ==
    /\ chart.rendered
    /\ \E i \in 0..(Len(chart.labels) - 1) :
          callback' = [fn |-> "pointLabel", index |-> i,
                       val |-> wrapPointLabel(chart.labels[i + 1])]
    /\ UNCHANGED <<payload, chart>>

InitRender ==
    /\ IsChartPayload(payload)
    /\ chart = NoChart
    /\ callback = NoCallback
    /\ IdlePure /\ IdleIndex /\ IdleIncident

NextRender ==
    \/ Render             /\ UNCHANGED <<pureVars, indexVars, incidentVars>>
    \/ TooltipTitle       /\ UNCHANGED <<pureVars, indexVars, incidentVars>>
    \/ TooltipLabel       /\ UNCHANGED <<pureVars, indexVars, incidentVars>>
    \/ PointLabelColor    /\ UNCHANGED <<pureVars, indexVars, incidentVars>>
    \/ PointLabelCallback /\ UNCHANGED <<pureVars, indexVars, incidentVars>>
SpecRender == InitRender /\ [][NextRender]_vars

(***************************************************************************)
(* The claims about render and its callbacks                               *)
(***************************************************************************)
PayloadData == GetProp(payload, "data")
ScoreOf(label) == GetProp(PayloadData, label)
\* The raw detail the payload holds for a label: undefined when there is none.
RawDetailOf(label) ==
    LET raw == GetProp(payload, "raw")
    IN  IF raw.t = "object" /\ HasProp(raw, label) THEN GetProp(raw, label) ELSE Undefined
\* The label of the axis the last callback was invoked for.
CallbackLabel == chart.labels[callback.index + 1]

\* C1: every axis whose score is null is plotted with display value 0 and
\* point, hover and hit radius 0, and its tooltip body is the single line
\* "No data available", whatever raw detail the payload holds for it.
C1_NullAxis ==
    chart.rendered =>
        /\ \A k \in 1..Len(PayloadData.v) :
              PayloadData.v[k][2] = Null =>
                  \E i \in 1..Len(chart.labels) : chart.labels[i] = PayloadData.v[k][1]
        /\ \A i \in 1..Len(chart.labels) :
              ScoreOf(chart.labels[i]) = Null =>
                  /\ chart.data[i] = Num(0)
                  /\ chart.pointRadius[i] = 0
                  /\ chart.pointHoverRadius[i] = 0
                  /\ chart.pointHitRadius[i] = 0
        /\ (callback.fn = "label" /\ ScoreOf(CallbackLabel) = Null) =>
              callback.val = Str("No data available")

C1_Witness ==
    /\ chart.rendered
    /\ callback.fn = "label"
    /\ ScoreOf(CallbackLabel) = Null
    /\ RawDetailOf(CallbackLabel).t = "array"
    /\ Len(RawDetailOf(CallbackLabel).v) = 3
    /\ callback.val = Str("No data available")
    /\ chart.pointHitRadius[callback.index + 1] = 0

\* C2: an axis whose score is the number 0 has point radius 4, hover radius 6,
\* hit radius 8 and the solid point color; the point radius is 0 exactly for
\* the null axes; a score-0 axis and a null axis share the display value 0 but
\* differ in point styling and in tooltip.
C2_ZeroAxis ==
    chart.rendered =>
        /\ \A i \in 1..Len(chart.labels) :
              /\ ScoreOf(chart.labels[i]) = Num(0) =>
                    /\ chart.pointRadius[i] = 4
                    /\ chart.pointHoverRadius[i] = 6
                    /\ chart.pointHitRadius[i] = 8
                    /\ chart.pointBackgroundColor[i] = "rgba(59, 130, 246, 1)"
                    /\ chart.pointBorderColor[i] = "rgba(59, 130, 246, 1)"
              /\ (chart.pointRadius[i] = 0) <=> (ScoreOf(chart.labels[i]) = Null)
        /\ \A i, j \in 1..Len(chart.labels) :
              (ScoreOf(chart.labels[i]) = Num(0) /\ ScoreOf(chart.labels[j]) = Null) =>
                  /\ chart.data[i] = chart.data[j]
                  /\ chart.pointRadius[i] # chart.pointRadius[j]
                  /\ chart.pointBackgroundColor[i] # chart.pointBackgroundColor[j]
        /\ (callback.fn = "label" /\ ScoreOf(CallbackLabel) = Num(0)) =>
              callback.val # Str("No data available")

C2_Witness ==
    /\ chart.rendered
    /\ \E i, j \in 1..Len(chart.labels) :
          /\ ScoreOf(chart.labels[i]) = Num(0)
          /\ ScoreOf(chart.labels[j]) = Null
          /\ chart.pointRadius[i] = 4
          /\ chart.pointRadius[j] = 0
    /\ callback.fn = "label"
    /\ ScoreOf(CallbackLabel) = Num(0)
    /\ callback.val = Str("* Score: 0.0 / 100")

\* C3: the axes of the rendered plot (labels, display values, point styling,
\* and the label and score a tooltip index looks up) are in the insertion
\* order of the keys of payload.data.
C3_InsertionOrder ==
    chart.rendered =>
        /\ Len(chart.labels) = Len(PayloadData.v)
        /\ \A i \in 1..Len(PayloadData.v) :
              /\ chart.labels[i] = PayloadData.v[i][1]
              /\ chart.scoreValues[i] = PayloadData.v[i][2]
              /\ chart.data[i] = (IF PayloadData.v[i][2] = Null THEN Num(0)
                                  ELSE PayloadData.v[i][2])
              /\ (chart.pointRadius[i] = 0) <=> (PayloadData.v[i][2] = Null)
        /\ callback.fn = "title" =>
              callback.val = Str(PayloadData.v[callback.index + 1][1])

\* The raw detail and score of the types the payload schema allows: a RawEntry
\* is an object whose value is a number, null or missing.
IsRawEntry(e) ==
    e.t = "object" /\ GetProp(e, "value").t \in {"number", "null", "undefined"}
IsTypedDetail(d) ==
    \/ IsNullish(d)
    \/ IsRawEntry(d)
    \/ d.t = "array" /\ \A i \in 1..Len(d.v) : IsRawEntry(d.v[i])

\* C4: for a non-null axis the tooltip is the score line
\* "* Score: {score to 1 decimal} / 100" alone when there is no raw detail or
\* every raw entry is dropped; otherwise two lines, the raw line first and the
\* score line last, the raw line being "* " and the formatted entries that have
\* a value, in their order, joined by " | ".
C4_TooltipText ==
    (/\ callback.fn = "label"
     /\ ScoreOf(CallbackLabel).t = "number"
     /\ GetProp(payload, "raw").t \in {"undefined", "null", "object"}
     /\ IsTypedDetail(RawDetailOf(CallbackLabel))) =>
        LET d         == RawDetailOf(CallbackLabel)
            scoreLine == Str("* Score: " \o ToFixed1(ScoreOf(CallbackLabel).v) \o " / 100")
            entries   == IF d.t = "array" THEN d.v ELSE IF IsNullish(d) THEN <<>> ELSE <<d>>
            HasValue(e) == ~IsNullish(GetProp(e, "value"))
            surviving == SelectSeq(entries, HasValue)
            rawLine   == Str("* " \o JoinStr([i \in 1..Len(surviving) |->
                                                 formatRawEntry(surviving[i]).v], " | "))
        IN  callback.val = IF Len(surviving) = 0 THEN scoreLine
                           ELSE Arr(<<rawLine, scoreLine>>)

C4_Witness ==
    /\ callback.fn = "label"
    /\ ScoreOf(CallbackLabel) = Num(6225)
    /\ callback.val = Arr(<<Str("* 12 bridges | 3.1 miles"), Str("* Score: 62.3 / 100")>>)

\* C5: no callback of a chart rendered from a payload that has a data field
\* raises, whatever the types of its scores and of its raw field.
C5_NoException ==
    callback.val.t # "throw"

(***************************************************************************)
(* The index page: dropdowns, Add Chart, chart cards                       *)
(***************************************************************************)
\* The zone ids, the keys of ZONE_LABELS.
ZoneIds == {"0_mile_buffer", "1_mile_buffer", "3_mile_buffer", "5_mile_buffer"}

\* incident_map.json as loaded by the bootstrap: region -> name -> uid.
Regions == {"AK", "CA"}
IncidentNames == {"1 Alder", "2 Birch"}
incidentLookup ==
    [name \in IncidentNames |->
        IF name = "1 Alder" THEN [region |-> "AK", uid |-> "u1"]
        ELSE [region |-> "CA", uid |-> "u2"]]

\* The incident options the select holds under a region filter ("" is none).
NamesOf(region) ==
    IF region = "" THEN IncidentNames
    ELSE {n \in IncidentNames : incidentLookup[n].region = region}

\* resolveIncident: the selected incident, or null.
resolveIncident(name) ==
    IF name = "" \/ name \notin IncidentNames THEN Null
    ELSE Obj(<< <<"region", Str(incidentLookup[name].region)>>, <<"name", Str(name)>>,
                <<"uid", Str(incidentLookup[name].uid)>> >>)

ChartIdOf(incident, zone) ==
    GetProp(incident, "region").v \o "--" \o GetProp(incident, "uid").v \o "--" \o zone

\* handleIncidentChange, with the selection and zone value it finds.
HandleIncidentChange(name) ==
    LET incident == resolveIncident(name)
        zone     == IF incident = Null THEN "" ELSE zoneSelect.value
    IN  /\ zoneSelect' = [value |-> zone, disabled |-> incident = Null]
        /\ addBtn' = [addBtn EXCEPT !.disabled = (incident = Null \/ zone = "")]

\* The region filter changes: the incident options are rebuilt, the selection
\* kept when it is still among them.
RegionChange ==
    \E region \in Regions \cup {""} :
        /\ region # regionSelect
        /\ regionSelect' = region
        /\ incidentSelect' = IF incidentSelect \in NamesOf(region) THEN incidentSelect ELSE ""
        /\ HandleIncidentChange(incidentSelect')
        /\ UNCHANGED <<emptyState, chartsGrid, activeCharts, charts, pending, nextUid>>

IncidentChange ==
    \E name \in NamesOf(regionSelect) \cup {""} :
        /\ name # incidentSelect
        /\ incidentSelect' = name
        /\ HandleIncidentChange(name)
        /\ UNCHANGED <<regionSelect, emptyState, chartsGrid, activeCharts, charts,
                       pending, nextUid>>

\* refreshAddButton, on a change of the zone dropdown.
ZoneChange ==
    \E zone \in ZoneIds \cup {""} :
        /\ ~zoneSelect.disabled
        /\ zone # zoneSelect.value
        /\ zoneSelect' = [zoneSelect EXCEPT !.value = zone]
        /\ addBtn' = [addBtn EXCEPT
                         !.disabled = (resolveIncident(incidentSelect) = Null \/ zone = "")]
        /\ UNCHANGED <<regionSelect, incidentSelect, emptyState, chartsGrid, activeCharts,
                       charts, pending, nextUid>>

\* document.getElementById(chartId): whether some card of the grid has the id.
HasElementWithId(grid, chartId) ==
    \E i \in 1..Len(grid) : grid[i].id = chartId

MaxAdds == 2

\* A click on the enabled Add Chart button, up to the await of the fetch.
AddClick ==
    /\ ~addBtn.disabled
    /\ LET incident == resolveIncident(incidentSelect)
            zone     == zoneSelect.value
       IN  IF incident = Null \/ zone = ""
           THEN UNCHANGED <<zoneSelect, addBtn, pending, nextUid>>
           ELSE IF HasElementWithId(chartsGrid, ChartIdOf(incident, zone))
           THEN /\ zoneSelect' = [zoneSelect EXCEPT !.value = ""]
                /\ addBtn' = [addBtn EXCEPT !.disabled = TRUE]
                /\ UNCHANGED <<pending, nextUid>>
           ELSE /\ nextUid <= MaxAdds
                /\ addBtn' = [disabled |-> TRUE, textContent |-> "Loading..."]
                /\ pending' = pending \cup {[uid |-> nextUid, chartId |-> ChartIdOf(incident, zone)]}
                /\ nextUid' = nextUid + 1
                /\ UNCHANGED zoneSelect
    /\ UNCHANGED <<regionSelect, incidentSelect, emptyState, chartsGrid, activeCharts, charts>>

\* How a handler's fetch and render end: the chart renders; the fetch rejects,
\* the response is not OK, or its JSON does not parse (nothing was built); the
\* JSON is null, so buildCard raises on chartData.title (nothing was appended);
\* the JSON has no data field, so render raises after the card was appended.
Outcomes == {"rendered", "fetchFailed", "buildCardThrows", "renderThrows"}

ChartCard(chartId, uid) == [kind |-> "chart", id |-> chartId, uid |-> uid]
ErrorCard(uid)          == [kind |-> "error", id |-> "", uid |-> uid]

\* Map.prototype.set
MapSet(map, key, value) ==
    {e \in map : e.key # key} \cup {[key |-> key, value |-> value]}
MapHas(map, key) == \E e \in map : e.key = key
MapGet(map, key) == (CHOOSE e \in map : e.key = key).value
MapDelete(map, key) == {e \in map : e.key # key}

\* The rest of the click handler, run when its fetch has settled.
FetchSettled ==
    \E req \in pending : \E outcome \in Outcomes :
        /\ pending' = pending \ {req}
        /\ CASE outcome = "rendered" ->
                  /\ emptyState' = FALSE
                  /\ chartsGrid' = Append(chartsGrid, ChartCard(req.chartId, req.uid))
                  /\ charts' = charts \cup {[handle |-> req.uid, canvas |-> req.uid,
                                              destroyed |-> FALSE]}
                  /\ activeCharts' = MapSet(activeCharts, req.chartId, req.uid)
             [] outcome = "renderThrows" ->
                  /\ emptyState' = FALSE
                  /\ chartsGrid' = chartsGrid \o <<ChartCard(req.chartId, req.uid),
                                                    ErrorCard(req.uid)>>
                  /\ UNCHANGED <<charts, activeCharts>>
             [] outcome = "buildCardThrows" ->
                  /\ emptyState' = FALSE
                  /\ chartsGrid' = Append(chartsGrid, ErrorCard(req.uid))
                  /\ UNCHANGED <<charts, activeCharts>>
             [] outcome = "fetchFailed" ->
                  /\ chartsGrid' = Append(chartsGrid, ErrorCard(req.uid))
                  /\ UNCHANGED <<emptyState, charts, activeCharts>>
        /\ addBtn' = [disabled |-> TRUE, textContent |-> "Add Chart"]
        /\ zoneSelect' = [zoneSelect EXCEPT !.value = ""]
        /\ UNCHANGED <<regionSelect, incidentSelect, nextUid>>

RemoveAt(seq, i) == SubSeq(seq, 1, i - 1) \o SubSeq(seq, i + 1, Len(seq))

\* Chart.prototype.destroy on the instance the map holds for the id, if any.
DestroyActive(chartId) ==
    IF MapHas(activeCharts, chartId)
    THEN {IF c.handle = MapGet(activeCharts, chartId) THEN [c EXCEPT !.destroyed = TRUE] ELSE c :
             c \in charts}
    ELSE charts

\* A click on the remove button of a chart card.
RemoveClick ==
    \E i \in 1..Len(chartsGrid) :
        /\ chartsGrid[i].kind = "chart"
        /\ charts' = DestroyActive(chartsGrid[i].id)
        /\ activeCharts' = MapDelete(activeCharts, chartsGrid[i].id)
        /\ chartsGrid' = RemoveAt(chartsGrid, i)
        /\ UNCHANGED <<regionSelect, incidentSelect, zoneSelect, addBtn, emptyState,
                       pending, nextUid>>

\* The 4000 ms timer of an error card fires.
ErrorCardTimeout ==
    \E i \in 1..Len(chartsGrid) :
        /\ chartsGrid[i].kind = "error"
        /\ chartsGrid' = RemoveAt(chartsGrid, i)
        /\ UNCHANGED <<regionSelect, incidentSelect, zoneSelect, addBtn, emptyState,
                       activeCharts, charts, pending, nextUid>>

\* The page after its bootstrap: nothing selected, an empty grid.  The initial
\* disabled attributes of the zone dropdown and the button come from the page's
\* markup.
InitIndex ==
    /\ regionSelect = "" /\ incidentSelect = ""
    /\ zoneSelect \in [value : {""}, disabled : BOOLEAN]
    /\ addBtn \in [disabled : BOOLEAN, textContent : {"Add Chart"}]
    /\ emptyState = TRUE
    /\ chartsGrid = <<>> /\ activeCharts = {} /\ charts = {}
    /\ pending = {} /\ nextUid = 1
    /\ IdlePure /\ IdleRender /\ IdleIncident

NextIndex ==
    \/ RegionChange     /\ UNCHANGED <<pureVars, renderVars, incidentVars>>
    \/ IncidentChange   /\ UNCHANGED <<pureVars, renderVars, incidentVars>>
    \/ ZoneChange       /\ UNCHANGED <<pureVars, renderVars, incidentVars>>
    \/ AddClick         /\ UNCHANGED <<pureVars, renderVars, incidentVars>>
    \/ FetchSettled     /\ UNCHANGED <<pureVars, renderVars, incidentVars>>
    \/ RemoveClick      /\ UNCHANGED <<pureVars, renderVars, incidentVars>>
    \/ ErrorCardTimeout /\ UNCHANGED <<pureVars, renderVars, incidentVars>>
SpecIndex == InitIndex /\ [][NextIndex]_vars

\* C8: after any sequence of add and remove operations, the charts disposed
\* are exactly those rendered on the canvas of a card that was removed, and
\* every chart card still in the grid keeps the activeCharts entry of its id.
C8_DisposeOwnChart ==
    /\ \A c \in charts :
          c.destroyed <=> ~(\E i \in 1..Len(chartsGrid) :
                               chartsGrid[i].kind = "chart" /\ chartsGrid[i].uid = c.canvas)
    /\ \A i \in 1..Len(chartsGrid) :
          (chartsGrid[i].kind = "chart" /\ \E c \in charts : c.canvas = chartsGrid[i].uid) =>
              MapHas(activeCharts, chartsGrid[i].id)

\* C11: under every interleaving of dropdown changes, Add Chart clicks, fetch
\* completions and Remove clicks, no two chart cards of the grid have the same
\* chartId, and every chart rendered on a card of the grid is the activeCharts
\* entry of that card's chartId.
C11_UniqueChartIds ==
    /\ \A i, j \in 1..Len(chartsGrid) :
          (i # j /\ chartsGrid[i].kind = "chart" /\ chartsGrid[j].kind = "chart") =>
              chartsGrid[i].id # chartsGrid[j].id
    /\ \A i \in 1..Len(chartsGrid) : \A c \in charts :
          (chartsGrid[i].kind = "chart" /\ c.canvas = chartsGrid[i].uid) =>
              /\ MapHas(activeCharts, chartsGrid[i].id)
              /\ MapGet(activeCharts, chartsGrid[i].id) = c.handle

\* C12: a step in which an Add Chart action fails (it shows an error card)
\* changes the grid only by appending that error card, adds no activeCharts
\* entry, and resets the controls: button text "Add Chart", zone cleared,
\* button disabled.
C12_FailedAddOnlyErrorCard ==
    [][(\E req \in pending :
            /\ req \notin pending'
            /\ \E i \in 1..Len(chartsGrid') : chartsGrid'[i] = ErrorCard(req.uid)) =>
          /\ \E req \in pending : chartsGrid' = Append(chartsGrid, ErrorCard(req.uid))
          /\ activeCharts' = activeCharts
          /\ addBtn' = [disabled |-> TRUE, textContent |-> "Add Chart"]
          /\ zoneSelect'.value = ""]_vars

(***************************************************************************)
(* The incident page: one quadrant cell per zone                           *)
(***************************************************************************)
\* Zone id -> display name, in the order the object literal lists them.
ZONE_LABELS ==
    Obj(<< <<"0_mile_buffer", Str("Perimeter or Reported Location")>>,
           <<"1_mile_buffer", Str("1 Mile Buffer")>>,
           <<"3_mile_buffer", Str("3 Mile Buffer")>>,
           <<"5_mile_buffer", Str("5 Mile Buffer")>> >>)

\* The footer note of a zone, as its text content (the link markup is left out).
buildFooterNote(zoneId) ==
    LET found == GetProp(ZONE_LABELS, zoneId)
        label == IF Truthy(found) THEN found ELSE Str(zoneId)
    IN  "Scores are log-scaled per axis, relative to the highest value in the "
            \o JsString(label) \o " zone for current wildfires."

\* String.prototype.split with a one-character separator.
RECURSIVE SplitChar(_, _)
SplitChar(s, c) ==
    IF ~HasChar(s, c) THEN <<s>>
    ELSE <<SubSeq(s, 1, IndexOfChar(s, c) - 1)>>
         \o SplitChar(SubSeq(s, IndexOfChar(s, c) + 1, Len(s)), c)

\* String.prototype.trim, for the one kind of white space the titles hold.
RECURSIVE Trim(_)
Trim(s) ==
    IF Len(s) = 0 THEN s
    ELSE IF SubSeq(s, 1, 1) = " " THEN Trim(SubSeq(s, 2, Len(s)))
    ELSE IF SubSeq(s, Len(s), Len(s)) = " " THEN Trim(SubSeq(s, 1, Len(s) - 1))
    ELSE s

\* location.hash.substring(1).split('/')
HashParts(hash) == SplitChar(SubSeq(hash, 2, Len(hash)), "/")

zones == ObjectKeys(ZONE_LABELS)

\* The hashes the page is opened with: none, a region only, region and uid.
Hashes == {"", "#AK", "#AK/u1"}

\* An element of the array Promise.allSettled resolves to; Pending stands for a
\* fetch that has not settled yet.
Pending      == [status |-> "pending",   value |-> Undefined, reason |-> Undefined]
Fulfilled(v) == [status |-> "fulfilled", value |-> v,         reason |-> Undefined]
Rejected(m)  == [status |-> "rejected",  value |-> Undefined,
                 reason |-> Obj(<< <<"message", Str(m)>> >>)]

\* What a zone file may parse to: a payload with title, subtitle and data; one
\* without data; one without title; and the JSON text null.
ZonePayloads ==
    { MakePayload(Obj(<< <<"Fuel", Num(6225)>> >>), Undefined),
      Obj(<< <<"title", Str("Alder : zone")>>, <<"subtitle", Str("sub")>> >>),
      Obj(<< <<"subtitle", Str("sub")>>,
             <<"data", Obj(<< <<"Fuel", Num(0)>> >>)>> >>),
      Null }

\* Why a zone's promise rejects: the response is not OK, the request fails, or
\* the body is not JSON.
FetchErrors == {"HTTP 404", "Failed to fetch", "Unexpected token"}

ZoneOutcomes == {Fulfilled(v) : v \in ZonePayloads} \cup {Rejected(m) : m \in FetchErrors}

\* What the last-updated chain hands to its second then: the parsed JSON, null
\* for a response that is not OK; Throw stands for a rejected fetch or parse.
LastUpdatedOutcomes ==
    { Throw("TypeError"), Null, Str("2025-07-04 12:00"), Str(""), Obj(<<>>),
      Obj(<< <<"updated_at", Str("2025-07-04 12:00")>> >>) }

\* The script up to its await: an invalid hash shows the error and returns,
\* a valid one starts the last-updated fetch and one fetch per zone.
PageStart ==
    /\ pagePc = "start"
    /\ IF Len(HashParts(locationHash)) < 2
       THEN /\ pagePc' = "invalid"
            /\ quadrantGrid' = << [kind |-> "invalid", zone |-> "", header |-> "Invalid URL",
                                   subheader |-> "", href |-> "", footer |-> "",
                                   chart |-> NoChart] >>
            /\ UNCHANGED results
       ELSE /\ pagePc' = "loading"
            /\ results' = [i \in 1..Len(zones) |-> Pending]
            /\ UNCHANGED quadrantGrid
    /\ UNCHANGED <<locationHash, lastUpdated, documentTitle>>

\* The last-updated chain settles; its catch turns every failure into nothing.
LastUpdatedSettled ==
    /\ pagePc = "loading"
    /\ ~lastUpdated.settled
    /\ \E p \in LastUpdatedOutcomes :
          LET datetime == IF p.t = "throw" THEN Null ELSE extractDatetime(p)
          IN  lastUpdated' =
                  [settled     |-> TRUE,
                   textContent |-> IF Truthy(datetime)
                                   THEN "Last Updated: " \o JsString(datetime)
                                   ELSE lastUpdated.textContent]
    /\ UNCHANGED <<locationHash, pagePc, results, quadrantGrid, documentTitle>>

\* One zone's fetch settles.
ZoneSettled ==
    /\ pagePc = "loading"
    /\ \E i \in 1..Len(results) :
          /\ results[i].status = "pending"
          /\ \E r \in ZoneOutcomes : results' = [results EXCEPT ![i] = r]
    /\ UNCHANGED <<locationHash, pagePc, lastUpdated, quadrantGrid, documentTitle>>

\* results.find(r => r.status === 'fulfilled') finds an element.
HasSuccess(rs) == \E i \in 1..Len(rs) : rs[i].status = "fulfilled"
firstSuccess(rs) ==
    rs[CHOOSE i \in 1..Len(rs) :
          rs[i].status = "fulfilled" /\ \A j \in 1..(i - 1) : rs[j].status # "fulfilled"]

\* The if block that sets the page title: undefined when nothing was fulfilled,
\* a TypeError when the first fulfilled value is null or its title is not a
\* string, else the text before the first colon, trimmed.
IncidentName(rs) ==
    IF ~HasSuccess(rs) THEN Undefined
    ELSE LET value == firstSuccess(rs).value
         IN  IF IsNullish(value) THEN Throw("TypeError")
             ELSE LET title == GetProp(value, "title")
                  IN  IF title.t # "string" THEN Throw("TypeError")
                      ELSE Str(Trim(SplitChar(title.v, ":")[1]))

\* ChartRenderer.render raises at Object.keys(chartData.data) when the payload
\* has no data.
RenderThrows(chartData) == IsNullish(GetProp(chartData, "data"))

ErrorCell(zone, reason) ==
    [kind |-> "error", zone |-> zone,
     header |-> "Failed to load " \o zone \o ": " \o JsString(GetProp(reason, "message")),
     subheader |-> "", href |-> "", footer |-> "", chart |-> NoChart]

ChartCell(zone, chartData, hash, rendered) ==
    [kind |-> "chart", zone |-> zone,
     header    |-> JsString(GetProp(chartData, "title")),
     subheader |-> JsString(GetProp(chartData, "subtitle")),
     href      |-> "chart.html#" \o HashParts(hash)[1] \o "/" \o HashParts(hash)[2]
                       \o "/" \o zone,
     footer    |-> buildFooterNote(zone),
     chart     |-> rendered]

\* results.forEach from element i on, with the cells appended so far: the grid
\* it leaves and whether the callback raised, which ends the loop.
RECURSIVE ForEachResult(_, _, _, _)
ForEachResult(rs, hash, i, grid) ==
    IF i > Len(rs) THEN [grid |-> grid, threw |-> FALSE]
    ELSE LET result == rs[i]
             zone   == zones[i]
         IN  IF result.status = "rejected"
             THEN ForEachResult(rs, hash, i + 1,
                                Append(grid, ErrorCell(zone, result.reason)))
             ELSE LET chartData == result.value
                  IN  IF IsNullish(chartData)
                      THEN [grid |-> grid, threw |-> TRUE]
                      ELSE IF RenderThrows(chartData)
                      THEN [grid  |-> Append(grid, ChartCell(zone, chartData, hash, NoChart)),
                            threw |-> TRUE]
                      ELSE ForEachResult(rs, hash, i + 1,
                               Append(grid, ChartCell(zone, chartData, hash,
                                                      render(chartData))))

\* The script after its await, once the last-updated chain and every zone's
\* fetch have settled: the title, then the grid emptied and rebuilt.
ShowResults ==
    /\ pagePc = "loading"
    /\ lastUpdated.settled
    /\ \A i \in 1..Len(results) : results[i].status # "pending"
    /\ LET incidentName == IncidentName(results)
           built        == ForEachResult(results, locationHash, 1, <<>>)
       IN  IF incidentName.t = "throw"
           THEN /\ pagePc' = "threw"
                /\ UNCHANGED <<quadrantGrid, documentTitle>>
           ELSE /\ documentTitle' = IF incidentName.t = "string" THEN incidentName.v
                                    ELSE documentTitle
                /\ quadrantGrid' = built.grid
                /\ pagePc' = IF built.threw THEN "threw" ELSE "done"
    /\ UNCHANGED <<locationHash, lastUpdated, results>>

InitIncident ==
    /\ locationHash \in Hashes
    /\ pagePc = "start"
    /\ lastUpdated = [settled |-> FALSE, textContent |-> ""]
    /\ results = <<>> /\ quadrantGrid = <<>> /\ documentTitle = ""
    /\ IdlePure /\ IdleRender /\ IdleIndex

NextIncident ==
    \/ PageStart          /\ UNCHANGED <<pureVars, renderVars, indexVars>>
    \/ LastUpdatedSettled /\ UNCHANGED <<pureVars, renderVars, indexVars>>
    \/ ZoneSettled        /\ UNCHANGED <<pureVars, renderVars, indexVars>>
    \/ ShowResults        /\ UNCHANGED <<pureVars, renderVars, indexVars>>
SpecIncident == InitIncident /\ [][NextIncident]_vars

\* C13: once the incident page's script has run to its end after all zone
\* fetches settled (normally or by an exception), the grid holds exactly one
\* cell per zone of ZONE_LABELS, in that order: an error cell for a zone whose
\* load was rejected and a cell with a rendered chart for a zone whose load
\* was fulfilled.
C13_OneCellPerZone ==
    pagePc \in {"done", "threw"} =>
        /\ Len(quadrantGrid) = Len(zones)
        /\ \A i \in 1..Len(zones) :
              /\ quadrantGrid[i].zone = zones[i]
              /\ results[i].status = "rejected" => quadrantGrid[i].kind = "error"
              /\ results[i].status = "fulfilled" =>
                    (quadrantGrid[i].kind = "chart" /\ quadrantGrid[i].chart.rendered)

====
